---- MODULE Spec2Model ----
(***************************************************************************)
(* Temporal record linkage of src/utils.py: add_latest_entry_before_date   *)
(* and add_latest_diagnosis_entry over in-memory tables.                   *)
(*                                                                         *)
(* A table is a record [names, numeric, rows].  names maps each column     *)
(* slot of the table to the column's name; every column access of the code *)
(* is by name and is resolved through names (a name that no slot carries   *)
(* is pandas' KeyError).  rows is the sequence of rows in table order.     *)
(* numeric is the dtype test of the value column (is_numeric_dtype).       *)
(* A string whose characters matter (a date string, a diagnosis code) is a *)
(* sequence of one-character strings.                                      *)
(***************************************************************************)
EXTENDS Integers, Sequences, FiniteSets, TLC

VARIABLES goal_df, data_df, diagnostics_df, call, outcome, probe

vars == <<goal_df, data_df, diagnostics_df, call, outcome, probe>>

----------------------------------------------------------------------------
(* Bounds of the model *)

MaxGoal == 2
MaxData == 2
MaxDiag == 2
MaxNamed == 1
MaxRootLen == 3
MaxCodeLen == 5

----------------------------------------------------------------------------
(* Cell values *)

NaT == <<"NaT">>
NaN == <<"NaN">>
Timestamp(n) == <<"ts", n>>
Num(n) == <<"num", n>>
Marker == <<"1">>

IsNA(v) == v = NaT \/ v = NaN

\* datetime comparison: anything compared with NaT is False
DateLt(a, b) == a # NaT /\ b # NaT /\ a[2] < b[2]

Digits == {"0", "1", "2", "3", "4", "5", "6", "7", "8", "9"}

DigitVal(c) ==
    CASE c = "0" -> 0 [] c = "1" -> 1 [] c = "2" -> 2 [] c = "3" -> 3
      [] c = "4" -> 4 [] c = "5" -> 5 [] c = "6" -> 6 [] c = "7" -> 7
      [] c = "8" -> 8 [] c = "9" -> 9

RECURSIVE Flatten(_)
Flatten(ss) ==
    IF ss = <<>> THEN <<>> ELSE Head(ss) \o Flatten(Tail(ss))

SeqsUpTo(S, n) == UNION {[1..k -> S] : k \in 0..n}

----------------------------------------------------------------------------
(* Column access by name *)

HasCol(df, name) == \E f \in DOMAIN df.names : df.names[f] = name
Col(df, name) == CHOOSE f \in DOMAIN df.names : df.names[f] = name
HasCols(df, cols) == \A c \in cols : HasCol(df, c)

id_col == "idp"
NoTable == [names |-> <<>>, numeric |-> FALSE, rows |-> <<>>]
Raised(err, heap) == [status |-> err, df |-> NoTable, heap |-> heap]

----------------------------------------------------------------------------
(* data_df.copy(): a new object with the same content, bound to the local   *)
(* name; the caller's object stays at its own address.                      *)

\* no copy: the local name is bound to the caller's object
CopyAliased(heap, ref) == [heap |-> heap, ref |-> ref]

CopyDF(heap, ref) == [heap |-> [heap EXCEPT !["local"] = heap[ref]], ref |-> "local"]

----------------------------------------------------------------------------
(* pd.to_datetime(col.astype(str), format='%Y%m%d')                         *)

AsTypeStr(v) == IF v = NaN THEN <<"n", "a", "n">> ELSE v

NatStrings == {<<>>, <<"n", "a", "n">>, <<"N", "a", "N">>, <<"N", "a", "T">>}

IsLeap(y) == (y % 4 = 0 /\ y % 100 # 0) \/ y % 400 = 0

DaysInMonth(y, m) ==
    IF m = 2 THEN (IF IsLeap(y) THEN 29 ELSE 28)
    ELSE IF m \in {4, 6, 9, 11} THEN 30 ELSE 31

\* one string: a missing-value string gives NaT, eight digits naming a
\* calendar day give that day, anything else does not parse
StrpYmd(s) ==
    IF s \in NatStrings THEN [ok |-> TRUE, ts |-> NaT]
    ELSE IF Len(s) # 8 \/ \E i \in 1..Len(s) : s[i] \notin Digits
         THEN [ok |-> FALSE, ts |-> NaT]
    ELSE LET y == 1000 * DigitVal(s[1]) + 100 * DigitVal(s[2])
                  + 10 * DigitVal(s[3]) + DigitVal(s[4])
             m == 10 * DigitVal(s[5]) + DigitVal(s[6])
             d == 10 * DigitVal(s[7]) + DigitVal(s[8])
         IN IF m \in 1..12 /\ d >= 1 /\ d <= DaysInMonth(y, m)
            THEN [ok |-> TRUE, ts |-> Timestamp(10000 * y + 100 * m + d)]
            ELSE [ok |-> FALSE, ts |-> NaT]

\* errors='coerce': no value fails the column
ToDatetimeCoerce(df, f) == TRUE

\* errors='raise': one unparsable value fails the whole column
ToDatetimeOK(df, f) ==
    \A i \in 1..Len(df.rows) : StrpYmd(AsTypeStr(df.rows[i][f])).ok

ToDatetime(df, f) ==
    [df EXCEPT !.rows =
        [i \in 1..Len(df.rows) |->
            [df.rows[i] EXCEPT ![f] = StrpYmd(AsTypeStr(df.rows[i][f])).ts]]]

----------------------------------------------------------------------------
(* goal_df.merge(right[[id_col, date, value]], on=id_col, how='left')       *)

\* a non-key column whose name both sides carry is suffixed
Suffixed(name, others, suffix) ==
    IF \E g \in DOMAIN others.names \ {"id"} : others.names[g] = name
    THEN name \o suffix ELSE name

MergeNames(left, right) ==
    [id |-> id_col,
     ref |-> Suffixed(left.names.ref, right, "_x"),
     date |-> Suffixed(right.names.date, left, "_y"),
     val |-> Suffixed(right.names.val, left, "_y")]

\* left order is kept; the right rows of a key follow in right order; a left
\* row without a partner is kept with missing right cells
Indexed(flat) ==
    [i \in 1..Len(flat) |->
        [idx |-> i, id |-> flat[i].id, ref |-> flat[i].ref,
         date |-> flat[i].date, val |-> flat[i].val]]

MergeRows(left, right) ==
    LET Partners(g) ==
            LET hits == SelectSeq(right.rows, LAMBDA r : r.id = g.id)
            IN IF hits = <<>>
               THEN << [id |-> g.id, ref |-> g.ref, date |-> NaT, val |-> NaN] >>
               ELSE [k \in 1..Len(hits) |->
                        [id |-> g.id, ref |-> g.ref,
                         date |-> hits[k].date, val |-> hits[k].val]]
    IN Indexed(Flatten([i \in 1..Len(left.rows) |-> Partners(left.rows[i])]))

MergeOnId(left, right) ==
    [names |-> MergeNames(left, right), numeric |-> right.numeric,
     rows |-> MergeRows(left, right)]

----------------------------------------------------------------------------
(* help_df[help_df[source_date_tmp] < help_df[ref_date_tmp]]                *)

\* source date <= reference date
ValidEntriesInclusive(help_df, sf, rf) ==
    [help_df EXCEPT !.rows =
        SelectSeq(help_df.rows,
                  LAMBDA r : r[sf] # NaT /\ r[rf] # NaT /\ ~ DateLt(r[rf], r[sf]))]

ValidEntries(help_df, sf, rf) ==
    [help_df EXCEPT !.rows = SelectSeq(help_df.rows, LAMBDA r : DateLt(r[sf], r[rf]))]

----------------------------------------------------------------------------
(* valid.loc[valid.groupby([id_col, ref_date_tmp])[source_date_tmp].idxmax()] *)

GroupKeys(rows, rf) == {<<rows[i].id, rows[i][rf]>> : i \in 1..Len(rows)}

KeyLess(a, b) == a[1] < b[1] \/ (a[1] = b[1] /\ a[2][2] < b[2][2])

RECURSIVE SortedKeys(_)
SortedKeys(K) ==
    IF K = {} THEN <<>>
    ELSE LET lo == CHOOSE a \in K : \A b \in K \ {a} : KeyLess(a, b)
         IN <<lo>> \o SortedKeys(K \ {lo})

\* every row of the group at the group's maximum date
IdxAllMax(rows, key, sf, rf) ==
    LET grp == SelectSeq(rows, LAMBDA r : <<r.id, r[rf]>> = key)
    IN SelectSeq(grp, LAMBDA r : \A k \in 1..Len(grp) : ~ DateLt(r[sf], grp[k][sf]))

\* the last row of the group at the group's maximum date
IdxLastMax(rows, key, sf, rf) ==
    LET top == IdxAllMax(rows, key, sf, rf)
    IN << top[Len(top)] >>

\* idxmax: the label of the first occurrence of the group's maximum date
IdxMax(rows, key, sf, rf) ==
    LET grp == SelectSeq(rows, LAMBDA r : <<r.id, r[rf]>> = key)
        top == SelectSeq(grp, LAMBDA r : \A k \in 1..Len(grp) : ~ DateLt(r[sf], grp[k][sf]))
    IN << top[1] >>

\* negative values leave the candidates before the latest row is chosen
LatestEntriesPrefiltered(valid, sf, rf) ==
    LET rows == IF valid.numeric
                THEN SelectSeq(valid.rows, LAMBDA r : r.val # NaN /\ r.val[2] >= 0)
                ELSE valid.rows
        keys == SortedKeys(GroupKeys(rows, rf))
        Pick(key) == IdxMax(rows, key, sf, rf)
    IN [valid EXCEPT !.rows = Flatten([i \in 1..Len(keys) |-> Pick(keys[i])])]

LatestEntries(valid, sf, rf) ==
    LET keys == SortedKeys(GroupKeys(valid.rows, rf))
        Pick(key) == IdxMax(valid.rows, key, sf, rf)
    IN [valid EXCEPT !.rows = Flatten([i \in 1..Len(keys) |-> Pick(keys[i])])]

\* rename(columns={...}): a name no column carries is ignored
Rename(df, old, new) ==
    [df EXCEPT !.names = [f \in DOMAIN df.names |->
                             IF df.names[f] = old THEN new ELSE df.names[f]]]

----------------------------------------------------------------------------
(* latest_entries[latest_entries[result_col_name] >= 0] when numeric        *)

\* no filter
KeepAll(df, vf) == df

NonNegative(df, vf) ==
    [df EXCEPT !.rows = SelectSeq(df.rows, LAMBDA r : r[vf] # NaN /\ r[vf][2] >= 0)]

----------------------------------------------------------------------------
(* goal_df.merge(latest[[id_col, 'ref_date', result]],                      *)
(*               left_on=[id_col, ref], right_on=[id_col, 'ref_date'],      *)
(*               how='left').drop(columns=['ref_date'])                     *)

FinalMerge(goal, latest, reference_date_col, result_col_name) ==
    LET gid == Col(goal, id_col)
        gref == Col(goal, reference_date_col)
        lid == Col(latest, id_col)
        lref == Col(latest, "ref_date")
        lval == Col(latest, result_col_name)
        Partners(g) ==
            LET hits == SelectSeq(latest.rows,
                                  LAMBDA r : r[lid] = g[gid] /\ r[lref] = g[gref])
            IN IF hits = <<>>
               THEN << [id |-> g.id, ref |-> g.ref, res |-> NaN] >>
               ELSE [k \in 1..Len(hits) |->
                        [id |-> g.id, ref |-> g.ref, res |-> hits[k][lval]]]
    IN [names |-> [id |-> goal.names.id, ref |-> goal.names.ref,
                   res |-> result_col_name],
        numeric |-> latest.numeric,
        rows |-> Flatten([i \in 1..Len(goal.rows) |-> Partners(goal.rows[i])])]

----------------------------------------------------------------------------
(* data_df[[id_col, source_date_col, value_col]]                            *)

SelectCols(df, datec, valc) ==
    [names |-> [id |-> id_col, date |-> datec, val |-> valc],
     numeric |-> df.numeric,
     rows |-> [i \in 1..Len(df.rows) |->
                  [id |-> df.rows[i][Col(df, id_col)],
                   date |-> df.rows[i][Col(df, datec)],
                   val |-> df.rows[i][Col(df, valc)]]]]

----------------------------------------------------------------------------
(* Lines 29-63 and 118-141: the temporal join both operations share, from   *)
(* the first merge to the final merge, one definition per stage.  nonneg    *)
(* says whether the operation has the numeric filter of lines 50-55.        *)

\* lines 57-63 / 135-141
JoinFinal(goal, filtered, heap, reference_date_col, result_col_name) ==
    IF ~ HasCols(filtered, {id_col, "ref_date", result_col_name})
       \/ ~ HasCol(goal, reference_date_col)
    THEN Raised("KeyError", heap)
    ELSE [status |-> "ok",
          df |-> FinalMerge(goal, filtered, reference_date_col, result_col_name),
          heap |-> heap]

\* lines 50-55
JoinFilter(goal, latest_entries, heap, reference_date_col, result_col_name, nonneg) ==
    IF ~ HasCol(latest_entries, result_col_name)
    THEN Raised("KeyError", heap)
    ELSE JoinFinal(goal,
                   IF nonneg /\ latest_entries.numeric
                   THEN NonNegative(latest_entries, Col(latest_entries, result_col_name))
                   ELSE latest_entries,
                   heap, reference_date_col, result_col_name)

\* lines 39-48 / 128-133
JoinLatest(goal, help_df, heap, sf, rf, ref_date_tmp, reference_date_col, valc, result_col_name, nonneg) ==
    JoinFilter(goal,
               Rename(Rename(LatestEntries(ValidEntries(help_df, sf, rf), sf, rf),
                             ref_date_tmp, "ref_date"),
                      valc, result_col_name),
               heap, reference_date_col, result_col_name, nonneg)

\* lines 32-37 / 121-126
JoinValid(goal, help_df, heap, source_date_tmp, ref_date_tmp, reference_date_col, valc, result_col_name, nonneg) ==
    IF ~ HasCol(help_df, source_date_tmp) \/ ~ HasCol(help_df, ref_date_tmp)
    THEN Raised("KeyError", heap)
    ELSE JoinLatest(goal, help_df, heap, Col(help_df, source_date_tmp),
                    Col(help_df, ref_date_tmp), ref_date_tmp, reference_date_col, valc,
                    result_col_name, nonneg)

\* lines 29-30 / 118-119
TemporalJoin(goal, right, heap, datec, reference_date_col, valc, result_col_name, nonneg) ==
    IF ~ HasCols(right, {id_col, valc, datec}) \/ ~ HasCol(goal, id_col)
    THEN Raised("KeyError", heap)
    ELSE JoinValid(goal, MergeOnId(goal, SelectCols(right, datec, valc)), heap,
                   datec \o "_y", reference_date_col \o "_x", reference_date_col, valc,
                   result_col_name, nonneg)

----------------------------------------------------------------------------
(* Lines 25-27 and 97-99: copy the source table and parse its date column   *)

ParseLocal(c, datec) ==
    IF ~ HasCol(c.heap[c.ref], datec)
    THEN [status |-> "KeyError", ref |-> c.ref, heap |-> c.heap]
    ELSE IF ~ ToDatetimeOK(c.heap[c.ref], Col(c.heap[c.ref], datec))
    THEN [status |-> "ValueError", ref |-> c.ref, heap |-> c.heap]
    ELSE [status |-> "ok", ref |-> c.ref,
          heap |-> [c.heap EXCEPT ![c.ref] = ToDatetime(@, Col(@, datec))]]

CopyAndParse(data, datec) ==
    ParseLocal(CopyDF([arg |-> data, local |-> NoTable], "arg"), datec)

----------------------------------------------------------------------------
(* add_latest_entry_before_date, lines 4-69                                 *)

EntryAfterParse(goal, p, source_date_col, reference_date_col, value_col, result_col_name) ==
    IF p.status # "ok" THEN Raised(p.status, p.heap)
    ELSE TemporalJoin(goal, p.heap[p.ref], p.heap, source_date_col,
                      reference_date_col, value_col, result_col_name, TRUE)

AddLatestEntryBeforeDate(goal, data, source_date_col, reference_date_col, value_col, result_col_name) ==
    EntryAfterParse(goal, CopyAndParse(data, source_date_col), source_date_col,
                    reference_date_col, value_col, result_col_name)

----------------------------------------------------------------------------
(* Lines 107-110: str.contains(fr'^{root}(?:\.\d+)?$', regex=True, na=False) *)
(* The root is pasted into the pattern as it is, so each of its characters  *)
(* is a pattern atom: '.' matches any character but a newline, a letter or  *)
(* a digit matches itself.  '$' matches at the end and before a final       *)
(* newline.                                                                 *)

NL == "\n"

AtomMatches(p, c) == IF p = "." THEN c # NL ELSE p = c

AtEnd(rest) == rest = <<>> \/ rest = <<NL>>

\* (?:\.\d+)?$ on what follows the root
TailMatches(rest) ==
    \/ AtEnd(rest)
    \/ /\ Len(rest) >= 2
       /\ rest[1] = "."
       /\ \E n \in 2..Len(rest) :
             /\ \A i \in 2..n : rest[i] \in Digits
             /\ AtEnd(SubSeq(rest, n + 1, Len(rest)))

RootMatches(root, code) ==
    /\ Len(code) >= Len(root)
    /\ \A i \in 1..Len(root) : AtomMatches(root[i], code[i])
    /\ TailMatches(SubSeq(code, Len(root) + 1, Len(code)))

\* lines 101-110: the mask of one diagnostics row
Mask(code, fixed_codes, code_roots) ==
    \/ fixed_codes # <<>> /\ \E i \in 1..Len(fixed_codes) : code = fixed_codes[i]
    \/ code_roots # <<>> /\ code # NaN
       /\ \E i \in 1..Len(code_roots) : RootMatches(code_roots[i], code)

\* lines 114-116: diagnostics_df[mask].copy() with the code column set to '1'
MarkLocal(c, cf) ==
    [c.heap[c.ref] EXCEPT !.rows = [i \in 1..Len(@) |-> [@[i] EXCEPT ![cf] = Marker]]]

MatchedDF(df, cf, fixed_codes, code_roots) ==
    MarkLocal(CopyDF([arg |-> [df EXCEPT !.rows =
                                  SelectSeq(@, LAMBDA r : Mask(r[cf], fixed_codes, code_roots))],
                      local |-> NoTable], "arg"),
              cf)

\* line 144: replace(r'^\s*$', np.nan, regex=True) on the result column
IsBlank(v) == ~ IsNA(v) /\ \A i \in 1..Len(v) : v[i] \in {" ", "\t", NL}

ReplaceBlank(r) ==
    IF r.status # "ok" THEN r
    ELSE [r EXCEPT !.df.rows = [i \in 1..Len(@) |->
            [@[i] EXCEPT !.res = IF IsBlank(@) THEN NaN ELSE @]]]

----------------------------------------------------------------------------
(* add_latest_diagnosis_entry, lines 74-150                                 *)

DiagAfterParse(goal, p, code_col, date_col, fixed_codes, code_roots, reference_date_col, result_col_name) ==
    IF p.status # "ok" THEN Raised(p.status, p.heap)
    ELSE IF (fixed_codes # <<>> \/ code_roots # <<>>) /\ ~ HasCol(p.heap[p.ref], code_col)
    THEN Raised("KeyError", p.heap)
    ELSE ReplaceBlank(
            TemporalJoin(goal,
                         MatchedDF(p.heap[p.ref], Col(p.heap[p.ref], code_col),
                                   fixed_codes, code_roots),
                         p.heap, date_col, reference_date_col, code_col,
                         result_col_name, FALSE))

AddLatestDiagnosisEntry(goal, diagnostics, code_col, date_col, fixed_codes, code_roots, reference_date_col, result_col_name) ==
    DiagAfterParse(goal, CopyAndParse(diagnostics, date_col), code_col, date_col,
                   fixed_codes, code_roots, reference_date_col, result_col_name)

----------------------------------------------------------------------------------------------------------------------------------------
(* The tables a caller can hand over, within the bounds                     *)

Ids == {1, 2}
ColNames == {"date", "t0"}
value_col == "val"
code_col == "code"

RefDates == {Timestamp(20200105), Timestamp(20200110)}

D20200101 == <<"2", "0", "2", "0", "0", "1", "0", "1">>
D20200105 == <<"2", "0", "2", "0", "0", "1", "0", "5">>
D20201301 == <<"2", "0", "2", "0", "1", "3", "0", "1">>
Blank == <<>>

ValidRaw == {D20200101, D20200105}
RawDates == ValidRaw \cup {D20201301, Blank}

NumValues == {Num(-2), Num(5)}
CatValues == {<<"n", "o">>, <<"y", "e", "s">>}

I10 == <<"I", "1", "0">>
I101 == <<"I", "1", "0", "1">>
I15 == <<"I", "1", "5">>
I15dot0 == <<"I", "1", "5", ".", "0">>
I1500 == <<"I", "1", "5", "0", "0">>

GoalTable(n, r) == [names |-> [id |-> id_col, ref |-> n], numeric |-> FALSE, rows |-> r]
DataTable(n, num, r) ==
    [names |-> [id |-> id_col, date |-> n, val |-> value_col], numeric |-> num, rows |-> r]
DiagTable(n, r) ==
    [names |-> [id |-> id_col, date |-> n, val |-> code_col], numeric |-> FALSE, rows |-> r]

GoalTables(names, max) ==
    {GoalTable(n, r) : n \in names, r \in SeqsUpTo([id : Ids, ref : RefDates], max)}

\* a row whose date is no calendar day carries one value: it is never read
NumRows(dates) ==
    [id : Ids, date : dates \cap ValidRaw, val : NumValues]
    \cup [id : Ids, date : dates \ ValidRaw, val : {Num(5)}]

DataTables(names, dates, max) ==
    {DataTable(n, TRUE, r) : n \in names, r \in SeqsUpTo(NumRows(dates), max)}
    \cup
    {DataTable(n, FALSE, r) :
        n \in names, r \in SeqsUpTo([id : Ids, date : ValidRaw, val : CatValues], max)}

DiagTables(names, dates, codes, max) ==
    {DiagTable(n, r) :
        n \in names, r \in SeqsUpTo([id : Ids, date : dates, val : codes], max)}

NoCall == [op |-> "none", source_date_col |-> "", reference_date_col |-> "",
           fixed_codes |-> <<>>, code_roots |-> <<>>]
NoOutcome == [status |-> "none", df |-> NoTable]
NoProbe == [root |-> <<>>, code |-> <<>>, state |-> "idle"]

----------------------------------------------------------------------------
(* One call of each operation on the tables the caller holds.  The caller   *)
(* names the columns its tables have, and makes one call.                   *)

Returned(r) == [status |-> r.status, df |-> r.df]

add_latest_entry_before_date ==
    /\ call = NoCall
    /\ data_df # NoTable
    /\ call' = [op |-> "entry", source_date_col |-> data_df.names.date,
                reference_date_col |-> goal_df.names.ref,
                fixed_codes |-> <<>>, code_roots |-> <<>>]
    /\ \E r \in {AddLatestEntryBeforeDate(goal_df, data_df, data_df.names.date,
                                          goal_df.names.ref, value_col, value_col)} :
          /\ outcome' = Returned(r)
          /\ data_df' = r.heap["arg"]
    /\ UNCHANGED <<goal_df, diagnostics_df, probe>>

add_latest_diagnosis_entry(fixed_codes, code_roots) ==
    /\ call = NoCall
    /\ diagnostics_df # NoTable
    /\ call' = [op |-> "diagnosis", source_date_col |-> diagnostics_df.names.date,
                reference_date_col |-> goal_df.names.ref,
                fixed_codes |-> fixed_codes, code_roots |-> code_roots]
    /\ \E r \in {AddLatestDiagnosisEntry(goal_df, diagnostics_df, code_col,
                                         diagnostics_df.names.date, fixed_codes,
                                         code_roots, goal_df.names.ref, "diagnosis")} :
          /\ outcome' = Returned(r)
          /\ diagnostics_df' = r.heap["arg"]
    /\ UNCHANGED <<goal_df, data_df, probe>>

\* the root match of one code, lines 108-110
match_code_root ==
    /\ probe.state = "drawn"
    /\ probe' = [probe EXCEPT !.state =
                    IF RootMatches(probe.root, probe.code) THEN "matched" ELSE "unmatched"]
    /\ UNCHANGED <<goal_df, data_df, diagnostics_df, call, outcome>>

----------------------------------------------------------------------------
(* Spec: both operations, the date columns of both tables named alike       *)

InitTables(goals, datas, diags) ==
    /\ goal_df \in goals
    /\ \/ data_df \in datas /\ diagnostics_df = NoTable
       \/ data_df = NoTable /\ diagnostics_df \in diags
    /\ call = NoCall
    /\ outcome = NoOutcome
    /\ probe = NoProbe

Init ==
    InitTables(GoalTables({"date"}, MaxGoal),
               DataTables({"date"}, RawDates, MaxData),
               DiagTables({"date"}, {D20200105, D20201301}, {I10, I101}, MaxDiag))

Next ==
    \/ add_latest_entry_before_date
    \/ \E f \in {<<>>, <<I10>>}, c \in {<<>>, <<I10>>} : add_latest_diagnosis_entry(f, c)

Spec == Init /\ [][Next]_vars

----------------------------------------------------------------------------
(* SpecNames: the date columns named independently, well-formed dates       *)

InitNames ==
    InitTables(GoalTables(ColNames, MaxNamed),
               DataTables(ColNames, ValidRaw, MaxNamed),
               DiagTables(ColNames, ValidRaw, {I10, I101}, MaxNamed))

SpecNames == InitNames /\ [][Next]_vars

----------------------------------------------------------------------------
(* SpecDiag: the diagnosis operation with fixed codes and code roots        *)

InitDiag ==
    /\ goal_df \in GoalTables({"date"}, MaxGoal)
    /\ data_df = NoTable
    /\ diagnostics_df \in
          DiagTables({"date"}, {D20200105}, {I10, I101, I15dot0, I1500}, MaxDiag)
    /\ call = NoCall
    /\ outcome = NoOutcome
    /\ probe = NoProbe

NextDiag ==
    \E f \in {<<>>, <<I10>>}, c \in {<<>>, <<I15>>, <<I15dot0>>} :
        add_latest_diagnosis_entry(f, c)

SpecDiag == InitDiag /\ [][NextDiag]_vars

----------------------------------------------------------------------------
(* SpecMatch: the root pattern on every root and code within the bounds     *)

RootAlphabet == {"I", "1", "5", "."}
CodeAlphabet == {"I", "1", "5", ".", NL}

InitMatch ==
    /\ goal_df = NoTable
    /\ data_df = NoTable
    /\ diagnostics_df = NoTable
    /\ call = NoCall
    /\ outcome = NoOutcome
    /\ probe \in [root : SeqsUpTo(RootAlphabet, MaxRootLen) \ {<<>>},
                  code : SeqsUpTo(CodeAlphabet, MaxCodeLen),
                  state : {"drawn"}]

NextMatch == match_code_root

SpecMatch == InitMatch /\ [][NextMatch]_vars

----------------------------------------------------------------------------
(* What the claims speak of, read off the caller's tables and the call      *)

Made == call # NoCall
EntryOK == call.op = "entry" /\ outcome.status = "ok"
DiagOK == call.op = "diagnosis" /\ outcome.status = "ok"
Src == IF call.op = "entry" THEN data_df ELSE diagnostics_df
Out == outcome.df.rows

\* the date a source row's string stands for
DateOf(row) == StrpYmd(AsTypeStr(row.date)).ts

\* eight digits that name no calendar day
Malformed(s) == Len(s) = 8 /\ (\A i \in 1..8 : s[i] \in Digits) /\ ~ StrpYmd(s).ok

\* not a YYYYMMDD date at all
NotYmd(s) == s \in NatStrings \/ ~ StrpYmd(s).ok

\* the dates the source rows' strings stand for, in table order
Dates(src) == [k \in 1..Len(src.rows) |-> DateOf(src.rows[k])]

\* the source rows of g's subject dated strictly before g's reference date
Before(dates, src, g) ==
    {k \in 1..Len(src.rows) : src.rows[k].id = g.id /\ DateLt(dates[k], g.ref)}

Eligible(src, g) == Before(Dates(src), src, g)

\* those of S at the maximum date
Top(dates, S) == {k \in S : \A j \in S : ~ DateLt(dates[k], dates[j])}

AtMax(src, g) == Top(Dates(src), Eligible(src, g))

\* the first of them in table order
First(S) == CHOOSE k \in S : \A j \in S : k <= j

FirstAtMax(src, g) == First(AtMax(src, g))

\* R itself, or R followed by a decimal point and one or more digits
Hierarchical(root, code) ==
    \/ code = root
    \/ /\ Len(code) >= Len(root) + 2
       /\ SubSeq(code, 1, Len(root)) = root
       /\ code[Len(root) + 1] = "."
       /\ \A i \in (Len(root) + 2)..Len(code) : code[i] \in Digits

InList(x, list) == \E i \in 1..Len(list) : list[i] = x

----------------------------------------------------------------------------
LatestStrictlyBefore ==
    EntryOK =>
        \A i \in 1..Len(Out) :
            Out[i].res # NaN =>
                \E k \in AtMax(data_df, goal_df.rows[i]) :
                    data_df.rows[k].val = Out[i].res

\* a result taken from the earlier row while the subject also has a row of
\* another value dated on the reference date itself
LatestStrictlyBeforeWitness ==
    /\ EntryOK
    /\ \E i \in 1..Len(Out) :
          /\ Out[i].res # NaN
          /\ \E k \in 1..Len(data_df.rows) :
                /\ data_df.rows[k].id = Out[i].id
                /\ DateOf(data_df.rows[k]) = Out[i].ref
                /\ data_df.rows[k].val # Out[i].res

NonNegativeResults ==
    (EntryOK /\ data_df.numeric) =>
        \A i \in 1..Len(Out) : Out[i].res # NaN => Out[i].res[2] >= 0

\* one target row gets a value, another one's latest row is negative
NonNegativeResultsWitness ==
    /\ EntryOK /\ data_df.numeric
    /\ \E i, j \in 1..Len(Out) :
          /\ Out[i].res # NaN
          /\ Out[j].res = NaN
          /\ Eligible(data_df, goal_df.rows[j]) # {}
          /\ \A k \in AtMax(data_df, goal_df.rows[j]) : data_df.rows[k].val[2] < 0

\* C5: with the named columns present and well-formed dates, both operations
\* return a table however the columns are named.
ReturnsWhateverTheNames == Made => outcome.status = "ok"

\* C6: a code is matched by a root exactly when it is the root or the root
\* followed by a decimal point and one or more digits, for every root string.
RootMatchIsHierarchical ==
    probe.state \in {"matched", "unmatched"} =>
        (probe.state = "matched" <=> Hierarchical(probe.root, probe.code))

\* C7: in add_latest_diagnosis_entry the flag of a target row is "1" exactly
\* when a diagnostics row of the same subject, dated strictly before the
\* reference date, has a code equal to a fixed code or matched by a root;
\* otherwise the result is missing.
DiagnosisFlagIff ==
    DiagOK =>
        \A i \in 1..Len(Out) :
            /\ Out[i].res \in {Marker, NaN}
            /\ Out[i].res = Marker <=>
                  \E k \in Eligible(diagnostics_df, goal_df.rows[i]) :
                      \/ InList(diagnostics_df.rows[k].val, call.fixed_codes)
                      \/ \E r \in 1..Len(call.code_roots) :
                            Hierarchical(call.code_roots[r], diagnostics_df.rows[k].val)

\* C8: a call, successful or failed, leaves the caller's target table and
\* source table as they were.
CallerTablesUnchanged ==
    [][goal_df' = goal_df /\ data_df' = data_df /\ diagnostics_df' = diagnostics_df]_vars

\* a flag "1" was returned and the diagnostics table still holds its date
\* strings and codes
CallerTablesUnchangedWitness ==
    /\ DiagOK
    /\ \E i \in 1..Len(Out) : Out[i].res = Marker
    /\ Len(diagnostics_df.rows) = 2
    /\ \A k \in 1..Len(diagnostics_df.rows) :
          /\ diagnostics_df.rows[k].date \in RawDates
          /\ diagnostics_df.rows[k].val \in {I10, I101}

TieFirstInTableOrder ==
    EntryOK =>
        /\ Len(Out) = Len(goal_df.rows)
        /\ \A i \in 1..Len(Out) :
              Eligible(data_df, goal_df.rows[i]) # {} =>
                  LET v == data_df.rows[FirstAtMax(data_df, goal_df.rows[i])].val
                  IN Out[i].res = IF data_df.numeric /\ v[2] < 0 THEN NaN ELSE v

\* two rows tied at the latest date carry different values, and the first
\* one's value is the result
TieFirstInTableOrderWitness ==
    /\ EntryOK
    /\ \E i \in 1..Len(Out) :
          /\ Out[i].res # NaN
          /\ Cardinality(AtMax(data_df, goal_df.rows[i])) = 2
          /\ \E k \in AtMax(data_df, goal_df.rows[i]) : data_df.rows[k].val # Out[i].res
          /\ data_df.rows[FirstAtMax(data_df, goal_df.rows[i])].val = Out[i].res

====
